---- MODULE Spec2Model ----
(***************************************************************************)
(* PollBuilder: the JSON-file keyed store (JsonFileStorage), its poll and  *)
(* user specialisations, and the vote path of PollService, as a state      *)
(* machine of asynchronous calls.                                          *)
(*                                                                         *)
(* A call is an async function.  It runs synchronously up to an await and  *)
(* then yields; the segments between two awaits are the atomic steps of    *)
(* the model.  start() initializes both stores before the server listens,  *)
(* so a call finds its store initialized; `await                           *)
(* this._ensureInitialized()` yields all the same, and every store method  *)
(* reads the cache in a later segment than the one that called it.         *)
(* fs.readFile and fs.writeFile are real I/O: a write is an open (which    *)
(* truncates) and the write proper, and several writes of one file may be  *)
(* in flight at once.                                                      *)
(*                                                                         *)
(* The repository holds two revisions of the storage and service sources;  *)
(* `revision` says which one is running:                                   *)
(*   "r1"  unnamed/part_003 (JsonFileStorage),                             *)
(*         JsonFilePollStorage.js:1-239, JsonFileUserStorage.js,           *)
(*         unnamed/part_001 (PollService), UserService.js                  *)
(*   "r2"  JsonFilePollStorage.js:356-561 (JsonFileStorage),               *)
(*         JsonFilePollStorage.js:240-355, unnamed/part_004,               *)
(*         services/PollService.js, unnamed/part_002                       *)
(*                                                                         *)
(* Records are TLA+ values, so JSON.parse(JSON.stringify(x)) of a record   *)
(* of strings, integers, arrays and maps is the record itself; what the    *)
(* deep copy prevents (aliasing) cannot arise between values.  A file's    *)
(* JSON array is kept as the set of its elements.                          *)
(***************************************************************************)
EXTENDS Integers, Sequences, FiniteSets, TLC

VARIABLES
  revision,     \* which revision of the sources runs
  data,         \* data[k]: this.data of store k, a map from id to record
  initialized,  \* initialized[k]: this.initialized of store k
  file,         \* file[k]: the content of <dataFolder>/<k>.json
  boot,         \* boot[k]: the initialize() of store k that start() runs
  listening,    \* the server accepts requests
  calls         \* calls[c]: the state of asynchronous call c

vars == <<revision, data, initialized, file, boot, listening, calls>>

----------------------------------------------------------------------------
(* Bounds and input sets *)

MaxCalls == 2

Calls == 1..MaxCalls
Revisions == {"r1", "r2"}
Kinds == {"users", "polls"}
Usernames == {"alice", "bob"}
PollIds == {"p1", "p2"}
VotedPollIds == {"p1"}
Options == <<"Red", "Blue">>

\* JavaScript numbers are counted in halves, so that a number that is not an
\* integer can be told from one that is: Num(1) is 1 and Num(0) + 1 is 0.5
Num(i) == 2 * i

\* Number.isInteger(x)
IsInteger(x) == x % 2 = 0

\* the indices a request carries: -1 .. N and 0.5
OptionIndices == {Num(i) : i \in -1..Len(Options)} \cup {Num(0) + 1}

Null == [null |-> TRUE]
True == [boolean |-> TRUE]
False == [boolean |-> FALSE]

NoVotes == [u \in {} |-> 0]

User(username) == [id |-> username, username |-> username]

PollBody(createdBy, votes) ==
  [question |-> "Color?", options |-> Options, createdBy |-> createdBy, votes |-> votes]

\* payloads handed to the generic create and update: a fresh poll body, a
\* body that carries a vote, and a body that carries an id field of its own
Payloads ==
  { PollBody("alice", NoVotes),
    PollBody("bob", [u \in {"alice"} |-> Num(1)]),
    [id |-> "p2", question |-> "Color?", options |-> Options,
     createdBy |-> "alice", votes |-> NoVotes] }

----------------------------------------------------------------------------
(* The Map this.data and the records in it *)

EmptyMap == [i \in {} |-> Null]

Has(map, id) == id \in DOMAIN map

Get(map, id) == IF Has(map, id) THEN map[id] ELSE Null

PutHalf(map, id, record) ==
  [i \in DOMAIN map \cup {id} |->
     IF i # id THEN map[i]
     ELSE IF id \in DOMAIN map THEN [record EXCEPT !.votes = map[id].votes]
     ELSE record]

Put(map, id, record) ==
  [i \in DOMAIN map \cup {id} |-> IF i = id THEN record ELSE map[i]]

KeepAll(map, id) == map

Remove(map, id) == [i \in DOMAIN map \ {id} |-> map[i]]

Values(map) == {map[i] : i \in DOMAIN map}

\* { ...storedData, id: stringId }
IdOverPayload(id, storedData) ==
  [f \in {"id"} \cup DOMAIN storedData |-> IF f = "id" THEN id ELSE storedData[f]]

\* { id: stringId, ...storedData }: the fields of the payload come last
WithId(id, storedData) ==
  [f \in {"id"} \cup DOMAIN storedData |->
     IF f \in DOMAIN storedData THEN storedData[f] ELSE id]

----------------------------------------------------------------------------
(* The file *)

Absent == [state |-> "absent", entities |-> {}]
Truncated == [state |-> "truncated", entities |-> {}]
Garbled == [state |-> "garbled", entities |-> {}]
Written(entities) == [state |-> "ok", entities |-> entities]

\* the files a previous run may have left behind
InitialFiles ==
  [users : {Absent, Written({User(u) : u \in Usernames})},
   polls : {Absent, Garbled, Written({WithId("p1", PollBody("alice", NoVotes))})}]

\* entities.forEach(entity => this.data.set(String(entity.id), {...entity})):
\* the maps the loop can end with, one record per id of the array
Loaded(map, entities) ==
  LET ids == {e.id : e \in entities}
  IN  { [i \in DOMAIN map \cup ids |->
           IF i \in ids THEN pick[i] ELSE map[i]] :
        pick \in {p \in [ids -> entities] : \A i \in ids : p[i].id = i} }

----------------------------------------------------------------------------
(* Calls *)

Idle ==
  [op |-> "none", pc |-> "idle", store |-> "polls",
   id |-> "none", username |-> "none", optionIndex |-> Num(0),
   payload |-> Null, poll |-> Null, before |-> EmptyMap, entities |-> {},
   status |-> "none", value |-> Null]

\* initialize() of one store, as start() runs it; `old` is what getAll() of
\* the instance before a restart returned, Null for the first instance
Booting == [pc |-> "readFile", content |-> Absent, entities |-> {}, old |-> Null]

Init ==
  /\ revision \in Revisions
  /\ data = [k \in Kinds |-> EmptyMap]
  /\ initialized = [k \in Kinds |-> FALSE]
  /\ file \in InitialFiles
  /\ boot = [k \in Kinds |-> Booting]
  /\ listening = FALSE
  /\ calls = [c \in Calls |-> Idle]

----------------------------------------------------------------------------
(* Entering a store method and leaving a call *)

\* the synchronous head of a store method: _ensureInitialized finds
\* this.initialized set and the method yields at its await
Entered(call, k, body) == [call EXCEPT !.store = k, !.pc = body]

\* what a caller keeps of a call that has returned or thrown
Left(call, status, value) ==
  [Idle EXCEPT !.op = call.op, !.pc = "done", !.id = call.id,
               !.username = call.username, !.optionIndex = call.optionIndex,
               !.payload = IF call.op \in {"create", "update", "createPoll"}
                          THEN call.payload ELSE Null,
               !.status = status, !.value = value]

Returned(call, value) == Left(call, "ok", value)

Thrown(call, error) == Left(call, error, Null)

\* requests reach the services once the server listens; calls are issued
\* in the order of their numbers
MayIssue(c) ==
  /\ listening
  /\ calls[c].pc = "idle"
  /\ c > 1 => calls[c - 1].pc # "idle"

Issue(c, call, k, body) ==
  /\ MayIssue(c)
  /\ calls' = [calls EXCEPT ![c] = Entered(call, k, body)]
  /\ UNCHANGED <<revision, data, initialized, file, boot, listening>>

----------------------------------------------------------------------------
(* server.js start(), initialize() and _saveToFile() *)

\* await fs.mkdir(...); await fs.readFile(this.filePath, 'utf8')
ReadFile(k) ==
  /\ boot[k].pc = "readFile"
  /\ boot' = [boot EXCEPT ![k].pc = "load", ![k].content = file[k]]
  /\ UNCHANGED <<revision, data, initialized, file, listening, calls>>

\* r1 clears the cache before it loads or saves; r2 does neither
Cleared(map) == IF revision = "r1" THEN EmptyMap ELSE map

\* the continuation of readFile: the array is loaded and the store is
\* initialized, or the store starts from what Cleared leaves and saves it
Load(k) ==
  /\ boot[k].pc = "load"
  /\ IF boot[k].content.state = "ok"
     THEN /\ \E map \in Loaded(Cleared(data[k]), boot[k].content.entities) :
                data' = [data EXCEPT ![k] = map]
          /\ initialized' = [initialized EXCEPT ![k] = TRUE]
          /\ boot' = [boot EXCEPT ![k] = [Booting EXCEPT !.old = boot[k].old, !.pc = "done"]]
     ELSE /\ data' = [data EXCEPT ![k] = Cleared(data[k])]
          /\ boot' = [boot EXCEPT ![k] = [Booting EXCEPT !.old = boot[k].old, !.pc = "open",
                                            !.entities = Values(Cleared(data[k]))]]
          /\ UNCHANGED initialized
  /\ UNCHANGED <<revision, file, listening, calls>>

\* fs.writeFile opens the file with flag 'w', which truncates it
Opened(k) == [file EXCEPT ![k] = Truncated]

NoWrite(k, entities) == {file[k]}

\* the bytes of the snapshot land at offset 0: over a file some other write
\* has filled since this one opened it, the result is the snapshot or a mix
WriteOutcomes(k, entities) ==
  IF file[k].state = "truncated"
  THEN {Written(entities)}
  ELSE {Written(entities), Garbled}

InitOpen(k) ==
  /\ boot[k].pc = "open"
  /\ file' = Opened(k)
  /\ boot' = [boot EXCEPT ![k].pc = "write"]
  /\ UNCHANGED <<revision, data, initialized, listening, calls>>

InitWrite(k) ==
  /\ boot[k].pc = "write"
  /\ \E content \in WriteOutcomes(k, boot[k].entities) :
        file' = [file EXCEPT ![k] = content]
  /\ initialized' = [initialized EXCEPT ![k] = TRUE]
  /\ boot' = [boot EXCEPT ![k] = [Booting EXCEPT !.old = boot[k].old, !.pc = "done"]]
  /\ UNCHANGED <<revision, data, listening, calls>>

\* fs.writeFile rejects: initialize throws and start() never listens
InitFails(k) ==
  /\ boot[k].pc \in {"open", "write"}
  /\ boot' = [boot EXCEPT ![k] = [Booting EXCEPT !.old = boot[k].old, !.pc = "failed"]]
  /\ UNCHANGED <<revision, data, initialized, file, listening, calls>>

ListenEarly ==
  /\ ~listening
  /\ listening' = TRUE
  /\ UNCHANGED <<revision, data, initialized, file, boot, calls>>

\* await Promise.all([userStorage.initialize(), pollStorage.initialize()]),
\* then app.listen(PORT, ...)
Listen ==
  /\ ~listening
  /\ \A k \in Kinds : boot[k].pc = "done"
  /\ listening' = TRUE
  /\ UNCHANGED <<revision, data, initialized, file, boot, calls>>

WriteOpen(c) ==
  /\ calls[c].pc = "open"
  /\ file' = Opened(calls[c].store)
  /\ calls' = [calls EXCEPT ![c].pc = "write"]
  /\ UNCHANGED <<revision, data, initialized, boot, listening>>

WriteFile(c) ==
  LET call == calls[c]
      k == call.store
  IN  /\ call.pc = "write"
      /\ \E content \in WriteOutcomes(k, call.entities) :
            file' = [file EXCEPT ![k] = content]
      /\ calls' = [calls EXCEPT ![c] = Returned(call, call.value)]
      /\ UNCHANGED <<revision, data, initialized, boot, listening>>

\* fs.writeFile rejects: _saveToFile rethrows and the call fails
SaveFails(c) ==
  /\ calls[c].pc \in {"open", "write"}
  /\ calls' = [calls EXCEPT ![c] = Thrown(calls[c], "PersistenceFailure")]
  /\ UNCHANGED <<revision, data, initialized, file, boot, listening>>

----------------------------------------------------------------------------
(* JsonFileStorage: create, getById, update, delete *)

\* r1 throws _formatDuplicateError(stringId); r2 builds its message from
\* `username`, which create does not declare, and throws a ReferenceError
DuplicateError == IF revision = "r1" THEN "DuplicateKey" ELSE "ReferenceError"

FormatOtherError == "DuplicateKey"

\* _formatNotFoundError(stringId) in r1, the message built in update in r2
FormatNotFoundError == "NotFound"

\* the cache is changed, and _saveToFile takes its snapshot of the cache in
\* the same segment, before the await of fs.writeFile; `before` keeps the
\* cache as the method found it
Saving(call, map, value) ==
  [call EXCEPT !.pc = "open", !.before = data[call.store],
               !.entities = Values(map), !.value = value]

CallCreate(c) ==
  \E id \in PollIds, payload \in Payloads :
     Issue(c, [Idle EXCEPT !.op = "create", !.id = id, !.payload = payload],
           "polls", "create")

Create(c) ==
  LET call == calls[c]
      k == call.store
      newEntity == WithId(call.id, call.payload)
      map == Put(data[k], call.id, newEntity)
  IN  /\ call.pc = "create"
      /\ IF Has(data[k], call.id)
         THEN /\ calls' = [calls EXCEPT ![c] = Thrown(call, DuplicateError)]
              /\ UNCHANGED data
         ELSE /\ data' = [data EXCEPT ![k] = map]
              /\ calls' = [calls EXCEPT ![c] = Saving(call, map, newEntity)]
      /\ UNCHANGED <<revision, initialized, file, boot, listening>>

CallGetById(c) ==
  \E id \in PollIds :
     Issue(c, [Idle EXCEPT !.op = "getById", !.id = id], "polls", "getById")

GetById(c) ==
  LET call == calls[c]
  IN  /\ call.pc = "getById"
      /\ calls' = [calls EXCEPT ![c] = Returned(call, Get(data[call.store], call.id))]
      /\ UNCHANGED <<revision, data, initialized, file, boot, listening>>

CallUpdate(c) ==
  \E id \in PollIds, payload \in Payloads :
     Issue(c, [Idle EXCEPT !.op = "update", !.id = id, !.payload = payload],
           "polls", "update")

Upsert(c) ==
  LET call == calls[c]
      k == call.store
      updatedEntity == WithId(call.id, call.payload)
      map == Put(data[k], call.id, updatedEntity)
  IN  /\ call.pc = "update"
      /\ data' = [data EXCEPT ![k] = map]
      /\ calls' = [calls EXCEPT ![c] = Saving(call, map, updatedEntity)]
      /\ UNCHANGED <<revision, initialized, file, boot, listening>>

\* also the tail of addVote, which hands update the poll it has read
Update(c) ==
  LET call == calls[c]
      k == call.store
      updatedEntity == WithId(call.id, call.payload)
      map == Put(data[k], call.id, updatedEntity)
  IN  /\ call.pc = "update"
      /\ IF ~Has(data[k], call.id)
         THEN /\ calls' = [calls EXCEPT ![c] = Thrown(call, FormatNotFoundError)]
              /\ UNCHANGED data
         ELSE /\ data' = [data EXCEPT ![k] = map]
              /\ calls' = [calls EXCEPT ![c] = Saving(call, map, updatedEntity)]
      /\ UNCHANGED <<revision, initialized, file, boot, listening>>

CallDelete(c) ==
  \E id \in PollIds :
     Issue(c, [Idle EXCEPT !.op = "delete", !.id = id], "polls", "delete")

\* also the tail of PollService.deletePoll; that of r1 throws 'Failed to
\* delete poll' when delete returns false, that of r2 returns the false
Delete(c) ==
  LET call == calls[c]
      k == call.store
      map == Remove(data[k], call.id)
  IN  /\ call.pc = "delete"
      /\ IF ~Has(data[k], call.id)
         THEN /\ calls' = [calls EXCEPT ![c] =
                   IF call.op = "deletePoll" /\ revision = "r1"
                   THEN Thrown(call, "DeleteFailed")
                   ELSE Returned(call, False)]
              /\ UNCHANGED data
         ELSE /\ data' = [data EXCEPT ![k] = map]
              /\ calls' = [calls EXCEPT ![c] = Saving(call, map, True)]
      /\ UNCHANGED <<revision, initialized, file, boot, listening>>

----------------------------------------------------------------------------
(* JsonFilePollStorage.addVote *)

NeverVoted(poll, username) == FALSE

\* Object.prototype.hasOwnProperty.call(poll.votes, username)
AlreadyVoted(poll, username) == username \in DOMAIN poll.votes

InvalidIndexAbove(poll, optionIndex) ==
  optionIndex < Num(0) \/ optionIndex > Num(Len(poll.options))

InvalidIndex(poll, optionIndex) ==
  optionIndex < Num(0) \/ optionIndex >= Num(Len(poll.options))

CastFirstOption(poll, username, optionIndex) ==
  [poll EXCEPT !.votes =
     [u \in DOMAIN @ \cup {username} |-> IF u = username THEN Num(0) ELSE @[u]]]

\* poll.votes[username] = optionIndex
CastVote(poll, username, optionIndex) ==
  [poll EXCEPT !.votes =
     [u \in DOMAIN @ \cup {username} |-> IF u = username THEN optionIndex ELSE @[u]]]

CallAddVote(c) ==
  \E id \in VotedPollIds, username \in Usernames, optionIndex \in OptionIndices :
     Issue(c, [Idle EXCEPT !.op = "addVote", !.id = id, !.username = username,
                           !.optionIndex = optionIndex],
           "polls", "addVote")

AddVoteAsCreator(c) ==
  LET call == calls[c]
      poll == Get(data[call.store], call.id)
  IN  /\ call.pc = "addVote"
      /\ calls' = [calls EXCEPT ![c] =
           IF poll = Null THEN Thrown(call, "NotFound")
           ELSE IF revision = "r1" /\ ~IsInteger(call.optionIndex)
                THEN Thrown(call, "InvalidVoteData")
           ELSE IF AlreadyVoted(poll, call.username) THEN Thrown(call, "DuplicateVote")
           ELSE IF InvalidIndex(poll, call.optionIndex)
                THEN Thrown(call, "InvalidOptionIndex")
           ELSE Entered([call EXCEPT !.poll = poll,
                                     !.payload = [CastVote(poll, call.username,
                                                           call.optionIndex)
                                                  EXCEPT !.createdBy = call.username]],
                        call.store, "update")]
      /\ UNCHANGED <<revision, data, initialized, file, boot, listening>>

\* the body of getById and the checks in addVote that follow it, up to the
\* synchronous head of update.  The usernames issued are non-empty strings;
\* r1 throws on an index that is not an integer, r2 has no such check.
AddVote(c) ==
  LET call == calls[c]
      poll == Get(data[call.store], call.id)
  IN  /\ call.pc = "addVote"
      /\ calls' = [calls EXCEPT ![c] =
           IF poll = Null THEN Thrown(call, "NotFound")
           ELSE IF revision = "r1" /\ ~IsInteger(call.optionIndex)
                THEN Thrown(call, "InvalidVoteData")
           ELSE IF AlreadyVoted(poll, call.username) THEN Thrown(call, "DuplicateVote")
           ELSE IF InvalidIndex(poll, call.optionIndex)
                THEN Thrown(call, "InvalidOptionIndex")
           ELSE Entered([call EXCEPT !.poll = poll,
                                     !.payload = CastVote(poll, call.username,
                                                          call.optionIndex)],
                        call.store, "update")]
      /\ UNCHANGED <<revision, data, initialized, file, boot, listening>>

----------------------------------------------------------------------------
(* PollService.vote *)

CallVote(c) ==
  \E id \in VotedPollIds, username \in Usernames, optionIndex \in OptionIndices :
     Issue(c, [Idle EXCEPT !.op = "vote", !.id = id, !.username = username,
                           !.optionIndex = optionIndex],
           "users", "userExists")

\* userService.userExists -> usernameExists -> getById on the user store;
\* r1 has thrown 'Invalid vote data' before it on an index that is not an
\* integer (Number.isInteger), r2 tests typeof optionIndex only
UserExists(c) ==
  LET call == calls[c]
  IN  /\ call.pc = "userExists"
      /\ calls' = [calls EXCEPT ![c] =
           IF call.op = "vote" /\ revision = "r1" /\ ~IsInteger(call.optionIndex)
           THEN Thrown(call, "InvalidVoteData")
           ELSE [call EXCEPT !.pc = "voteUser",
                             !.poll = Get(data[call.store], call.username)]]
      /\ UNCHANGED <<revision, data, initialized, file, boot, listening>>

VoteAnyUser(c) ==
  /\ calls[c].pc = "voteUser"
  /\ calls' = [calls EXCEPT ![c] = Entered(calls[c], "polls", "getPoll")]
  /\ UNCHANGED <<revision, data, initialized, file, boot, listening>>

\* the continuation in vote: the user check, then the head of getPoll
VoteUser(c) ==
  LET call == calls[c]
  IN  /\ call.pc = "voteUser"
      /\ calls' = [calls EXCEPT ![c] =
           IF call.poll = Null THEN Thrown(call, "UserDoesNotExist")
           ELSE Entered(call, "polls", "getPoll")]
      /\ UNCHANGED <<revision, data, initialized, file, boot, listening>>

\* the body of getPoll's getById, the index check of vote, the head of addVote
GetPoll(c) ==
  LET call == calls[c]
      poll == Get(data[call.store], call.id)
  IN  /\ call.pc = "getPoll"
      /\ calls' = [calls EXCEPT ![c] =
           IF poll = Null THEN Thrown(call, "NotFound")
           ELSE IF InvalidIndex(poll, call.optionIndex)
                THEN Thrown(call, "InvalidOptionIndex")
           ELSE Entered([call EXCEPT !.poll = poll], call.store, "addVote")]
      /\ UNCHANGED <<revision, data, initialized, file, boot, listening>>

----------------------------------------------------------------------------
(* The specifications *)

Begin(c) ==
  \/ CallCreate(c)
  \/ CallGetById(c)
  \/ CallUpdate(c)
  \/ CallDelete(c)
  \/ CallAddVote(c)
  \/ CallVote(c)

Start ==
  \/ \E k \in Kinds : ReadFile(k) \/ Load(k) \/ InitOpen(k) \/ InitWrite(k) \/ InitFails(k)
  \/ Listen

Step(c) ==
  \/ WriteOpen(c)
  \/ WriteFile(c)
  \/ SaveFails(c)
  \/ Create(c)
  \/ GetById(c)
  \/ Update(c)
  \/ Delete(c)
  \/ AddVote(c)
  \/ UserExists(c)
  \/ VoteUser(c)
  \/ GetPoll(c)

\* calls are issued at any time and interleave at their awaits
Next == Start \/ \E c \in Calls : Begin(c) \/ Step(c)

Spec == Init /\ [][Next]_vars

\* no call is in flight
Quiet == \A c \in Calls : calls[c].pc \in {"idle", "done"}

\* every call returns before the next one is issued
SeqNext == Start \/ \E c \in Calls : (Quiet /\ Begin(c)) \/ Step(c)

SeqSpec == Init /\ [][SeqNext]_vars

----------------------------------------------------------------------------
(* JsonFilePollStorage.getPollResults *)

Voters == Usernames \cup {"carol"}

\* votes maps a poll file may hold: indices in range, 0.5, and the index N
VoteMaps ==
  UNION { [voters -> {Num(0), Num(1), Num(0) + 1, Num(Len(Options))}] :
          voters \in SUBSET Voters }

\* the votes the forEach of r1 counts: typeof optionIndex === 'number' &&
\* optionIndex >= 0 && optionIndex < voteCounts.length
Counted(poll) ==
  {u \in DOMAIN poll.votes :
     poll.votes[u] >= Num(0) /\ poll.votes[u] < Num(Len(poll.options))}

TallyNothing(poll, i) == 0

\* voteCounts[i] for an option i: voteCounts[optionIndex]++ adds to it once
\* for every vote whose value is the number i; any other value names another
\* element or property of the array
Tally(poll, i) == Cardinality({u \in DOMAIN poll.votes : poll.votes[u] = Num(i)})

\* r1 counts as it tallies, r2 returns Object.keys(poll.votes).length
TotalVotes(poll) ==
  IF revision = "r1" THEN Cardinality(Counted(poll))
  ELSE Cardinality(DOMAIN poll.votes)

\* the object getPollResults returns; results[i] is for option i - 1
PollResults(pollId, poll) ==
  [id |-> pollId, question |-> poll.question, createdBy |-> poll.createdBy,
   totalVotes |-> TotalVotes(poll),
   results |-> [i \in 1..Len(poll.options) |->
                  [option |-> poll.options[i], votes |-> Tally(poll, i - 1)]]]

CallGetPollResults(c) ==
  \E id \in PollIds :
     Issue(c, [Idle EXCEPT !.op = "getPollResults", !.id = id],
           "polls", "getPollResults")

GetPollResultsInPlace(c) ==
  LET call == calls[c]
      k == call.store
      poll == Get(data[k], call.id)
  IN  /\ call.pc = "getPollResults"
      /\ calls' = [calls EXCEPT ![c] =
           IF poll = Null THEN Thrown(call, "NotFound")
           ELSE Returned(call, PollResults(call.id, poll))]
      /\ data' = IF poll = Null THEN data
                 ELSE [data EXCEPT ![k][call.id].votes = NoVotes]
      /\ UNCHANGED <<revision, initialized, file, boot, listening>>

\* the body of getById and what getPollResults does with the poll
GetPollResults(c) ==
  LET call == calls[c]
      poll == Get(data[call.store], call.id)
  IN  /\ call.pc = "getPollResults"
      /\ calls' = [calls EXCEPT ![c] =
           IF poll = Null THEN Thrown(call, "NotFound")
           ELSE Returned(call, PollResults(call.id, poll))]
      /\ UNCHANGED <<revision, data, initialized, file, boot, listening>>

\* the poll files getPollResults is read from: none, or poll p1 with any of
\* the votes maps
ResultsFiles ==
  {[users |-> Absent, polls |-> Absent]} \cup
  { [users |-> Absent,
     polls |-> Written({WithId("p1", PollBody("alice", votes))})] :
    votes \in VoteMaps }

ResultsInit ==
  /\ revision \in Revisions
  /\ data = [k \in Kinds |-> EmptyMap]
  /\ initialized = [k \in Kinds |-> FALSE]
  /\ file \in ResultsFiles
  /\ boot = [k \in Kinds |-> Booting]
  /\ listening = FALSE
  /\ calls = [c \in Calls |-> Idle]

ResultsNext ==
  \/ Start
  \/ \E c \in Calls : CallGetPollResults(c) \/ GetPollResults(c)

ResultsSpec == ResultsInit /\ [][ResultsNext]_vars

----------------------------------------------------------------------------
(* A restart: new store instances on the same files *)

\* getAll(): Array.from(this.data.values()), as a set of records
GetAll(k) == [records |-> Values(data[k])]

Mutate(c) == CallCreate(c) \/ CallUpdate(c) \/ CallDelete(c)

Restarted == \E k \in Kinds : boot[k].old # Null

\* the process ends with no call in flight and is started again: start()
\* constructs the stores anew and initializes them from their files
Restart ==
  /\ listening
  /\ Quiet
  /\ ~Restarted
  /\ data' = [k \in Kinds |-> EmptyMap]
  /\ initialized' = [k \in Kinds |-> FALSE]
  /\ boot' = [k \in Kinds |-> [Booting EXCEPT !.old = GetAll(k)]]
  /\ listening' = FALSE
  /\ UNCHANGED <<revision, file, calls>>

\* create, update and delete one at a time, then one restart
MutateStep(c) ==
  \/ WriteOpen(c)
  \/ WriteFile(c)
  \/ SaveFails(c)
  \/ Create(c)
  \/ Update(c)
  \/ Delete(c)

RestartNext ==
  \/ Start
  \/ \E c \in Calls : (Quiet /\ ~Restarted /\ Mutate(c)) \/ MutateStep(c)
  \/ Restart

RestartSpec == Init /\ [][RestartNext]_vars

----------------------------------------------------------------------------
(* Strings and String.prototype.trim *)

\* the strings the model passes as options, and what trim() makes of each
Strings == {"Red", "Blue", " Red", "", " "}

Trim(str) ==
  CASE str = " Red" -> "Red"
    [] str = " " -> ""
    [] OTHER -> str

\* options.map(opt => opt.trim())
TrimAll(options) == [i \in DOMAIN options |-> Trim(options[i])]

\* the option arrays of the createPoll requests
OptionLists ==
  { Options, <<"Red">>, <<"Red", "">>, <<"Red", " ">>, <<"Red", "Red">>,
    <<" Red", "Blue">>, <<"Red", " Red">> }

----------------------------------------------------------------------------
(* UserService.createUser and JsonFileUserStorage.createUser *)

\* r1 works on username.trim(), r2 on the username as given
Name(username) == IF revision = "r1" THEN Trim(username) ELSE username

CallCreateUser(c) ==
  \E username \in Usernames :
     Issue(c, [Idle EXCEPT !.op = "createUser", !.username = username],
           "users", "usernameExists")

\* the validation of createUser, the body of usernameExists' getById, the
\* check on its result and the head of userStorage.createUser -> create
UsernameExists(c) ==
  LET call == calls[c]
      name == Name(call.username)
  IN  /\ call.pc = "usernameExists"
      /\ calls' = [calls EXCEPT ![c] =
           IF Trim(call.username) = "" THEN Thrown(call, "InvalidUsername")
           ELSE IF Get(data[call.store], name) # Null THEN Thrown(call, "AlreadyExists")
           ELSE Entered([call EXCEPT !.id = name, !.payload = [username |-> name]],
                        "users", "create")]
      /\ UNCHANGED <<revision, data, initialized, file, boot, listening>>

\* userStorage.createUser(username): this.create(username, { username })
CallStoreUser(c) ==
  \E username \in Usernames :
     Issue(c, [Idle EXCEPT !.op = "userStorage.createUser", !.id = username,
                           !.username = username,
                           !.payload = [username |-> username]],
           "users", "create")

\* UserService.userExists(username) -> userStorage.usernameExists(username);
\* the usernames are non-empty strings, which pass the check of userExists
CallUserExists(c) ==
  \E username \in Usernames :
     Issue(c, [Idle EXCEPT !.op = "userExists", !.username = username],
           "users", "getUserByUsername")

\* the body of getUserByUsername's getById and `user !== null`
GetUserByUsername(c) ==
  LET call == calls[c]
  IN  /\ call.pc = "getUserByUsername"
      /\ calls' = [calls EXCEPT ![c] =
           Returned(call, IF Get(data[call.store], call.username) # Null
                          THEN True ELSE False)]
      /\ UNCHANGED <<revision, data, initialized, file, boot, listening>>

----------------------------------------------------------------------------
(* PollService.createPoll and JsonFilePollStorage.createPoll *)

PollRequests == [question : {"Color?"}, options : OptionLists, creator : Usernames]

\* uniqueOptions.has(...) for option i: r1 keeps and looks up the trimmed
\* options, r2 the options as given
SeenBefore(options, i) ==
  \E j \in 1..(i - 1) :
     IF revision = "r1" THEN Trim(options[j]) = Trim(options[i])
     ELSE options[j] = options[i]

BadOption(options, i) == Trim(options[i]) = "" \/ SeenBefore(options, i)

\* the error the synchronous validation of createPoll throws, "none" when
\* the request passes
Rejection(pollData) ==
  LET options == pollData.options
      bad == {i \in 1..Len(options) : BadOption(options, i)}
      first == CHOOSE i \in bad : \A j \in bad : i <= j
  IN  IF Trim(pollData.question) = "" THEN "InvalidQuestion"
      ELSE IF Len(options) < 2 THEN "TooFewOptions"
      ELSE IF bad # {}
           THEN IF Trim(options[first]) = "" THEN "EmptyOption" ELSE "DuplicateOption"
      ELSE IF pollData.creator = "" \/ (revision = "r1" /\ Trim(pollData.creator) = "")
           THEN "InvalidCreator"
      ELSE "none"

\* what createPoll hands to pollStorage.createPoll: r1 trims the question,
\* the options and the creator, r2 passes them as given
Validated(pollData) ==
  IF revision = "r1"
  THEN [question |-> Trim(pollData.question), options |-> TrimAll(pollData.options),
        createdBy |-> Trim(pollData.creator)]
  ELSE [question |-> pollData.question, options |-> pollData.options,
        createdBy |-> pollData.creator]

VotedPoll(pollData) ==
  [question |-> pollData.question, options |-> pollData.options,
   createdBy |-> pollData.createdBy, votes |-> [u \in {pollData.createdBy} |-> Num(0)]]

\* the poll JsonFilePollStorage.createPoll builds and hands to create
NewPoll(pollData) ==
  [question |-> pollData.question, options |-> pollData.options,
   createdBy |-> pollData.createdBy, votes |-> NoVotes]

\* uuidv4(): an id that no poll and no request has carried
Unused(id) ==
  /\ id \notin DOMAIN data["polls"]
  /\ \A c \in Calls : calls[c].id # id

\* the id is drawn when the request arrives; createPoll draws it after the
\* creator check, from the same generator, and a request that fails before
\* that has drawn none
CallCreatePoll(c) ==
  \E pollData \in PollRequests, id \in PollIds :
     /\ Unused(id)
     /\ Issue(c, [Idle EXCEPT !.op = "createPoll", !.id = id,
                              !.username = pollData.creator, !.payload = pollData],
              "users", "creatorExists")

AnyCreator(call) == TRUE

\* userService.userExists(creator): usernameExists -> getById on the users
CreatorKnown(call) ==
  Get(data["users"], Name(call.payload.creator)) # Null

\* the validation of createPoll, the body of userExists' getById, the check
\* on its result, pollStorage.createPoll and the head of create
CreatorExists(c) ==
  LET call == calls[c]
      pollData == Validated(call.payload)
      failed == [call EXCEPT !.id = "none"]
  IN  /\ call.pc = "creatorExists"
      /\ calls' = [calls EXCEPT ![c] =
           IF Rejection(call.payload) # "none" THEN Thrown(failed, Rejection(call.payload))
           ELSE IF ~CreatorKnown(call) THEN Thrown(failed, "CreatorDoesNotExist")
           ELSE Entered([call EXCEPT !.poll = pollData, !.payload = NewPoll(pollData)],
                        "polls", "create")]
      /\ UNCHANGED <<revision, data, initialized, file, boot, listening>>

----------------------------------------------------------------------------
(* PollService.getPoll and PollService.deletePoll *)

CallGetPoll(c) ==
  \E id \in PollIds :
     Issue(c, [Idle EXCEPT !.op = "getPoll", !.id = id], "polls", "findPoll")

\* the body of getById and the check of getPoll on its result
FindPoll(c) ==
  LET call == calls[c]
      poll == Get(data[call.store], call.id)
  IN  /\ call.pc = "findPoll"
      /\ calls' = [calls EXCEPT ![c] =
           IF poll = Null THEN Thrown(call, "NotFound") ELSE Returned(call, poll)]
      /\ UNCHANGED <<revision, data, initialized, file, boot, listening>>

CallDeletePoll(c) ==
  \E id \in PollIds, username \in Usernames :
     Issue(c, [Idle EXCEPT !.op = "deletePoll", !.id = id, !.username = username],
           "polls", "authorize")

Anyone(poll, username) == TRUE

\* poll.createdBy !== username fails; r1 compares with username.trim()
IsCreator(poll, username) == poll.createdBy = Name(username)

\* the body of getPoll's getById, the creator check and the head of delete
Authorize(c) ==
  LET call == calls[c]
      poll == Get(data[call.store], call.id)
  IN  /\ call.pc = "authorize"
      /\ calls' = [calls EXCEPT ![c] =
           IF poll = Null THEN Thrown(call, "NotFound")
           ELSE IF ~IsCreator(poll, call.username) THEN Thrown(call, "OnlyCreator")
           ELSE Entered(call, call.store, "delete")]
      /\ UNCHANGED <<revision, data, initialized, file, boot, listening>>

----------------------------------------------------------------------------
(* The service operations *)

\* the files earlier runs of the services may have left: no users and no
\* polls, users only, users and a poll of one of them
ServiceFiles ==
  { [users |-> Absent, polls |-> Absent],
    [users |-> Written({User("alice")}),
     polls |-> Written({WithId("p1", PollBody("alice", NoVotes))})],
    [users |-> Written({User(u) : u \in Usernames}), polls |-> Absent],
    [users |-> Written({User(u) : u \in Usernames}), polls |-> Garbled],
    [users |-> Written({User(u) : u \in Usernames}),
     polls |-> Written({WithId("p1", PollBody("alice", NoVotes))})] }

ServiceInit ==
  /\ revision \in Revisions
  /\ data = [k \in Kinds |-> EmptyMap]
  /\ initialized = [k \in Kinds |-> FALSE]
  /\ file \in ServiceFiles
  /\ boot = [k \in Kinds |-> Booting]
  /\ listening = FALSE
  /\ calls = [c \in Calls |-> Idle]

ServiceBegin(c) ==
  \/ CallCreateUser(c)
  \/ CallStoreUser(c)
  \/ CallCreatePoll(c)
  \/ CallGetPoll(c)
  \/ CallVote(c)
  \/ CallGetPollResults(c)
  \/ CallDeletePoll(c)

ServiceStep(c) ==
  \/ WriteOpen(c)
  \/ WriteFile(c)
  \/ SaveFails(c)
  \/ Create(c)
  \/ Update(c)
  \/ Delete(c)
  \/ AddVote(c)
  \/ UserExists(c)
  \/ VoteUser(c)
  \/ GetPoll(c)
  \/ GetPollResults(c)
  \/ UsernameExists(c)
  \/ CreatorExists(c)
  \/ FindPoll(c)
  \/ Authorize(c)

ServiceNext == Start \/ \E c \in Calls : ServiceBegin(c) \/ ServiceStep(c)

ServiceSpec == ServiceInit /\ [][ServiceNext]_vars

\* the service calls one at a time
SeqServiceNext ==
  Start \/ \E c \in Calls : (Quiet /\ ServiceBegin(c)) \/ ServiceStep(c)

SeqServiceSpec == ServiceInit /\ [][SeqServiceNext]_vars

----------------------------------------------------------------------------
(* The user service on a store that starts without users *)

\* no users.json, an empty array, or a file that does not parse
UserFiles ==
  [users : {Absent, Written({}), Garbled}, polls : {Absent}]

UserInit ==
  /\ revision \in Revisions
  /\ data = [k \in Kinds |-> EmptyMap]
  /\ initialized = [k \in Kinds |-> FALSE]
  /\ file \in UserFiles
  /\ boot = [k \in Kinds |-> Booting]
  /\ listening = FALSE
  /\ calls = [c \in Calls |-> Idle]

UserBegin(c) ==
  \/ CallCreateUser(c)
  \/ CallStoreUser(c)
  \/ CallUserExists(c)

UserStep(c) ==
  \/ UsernameExists(c)
  \/ Create(c)
  \/ WriteOpen(c)
  \/ WriteFile(c)
  \/ SaveFails(c)
  \/ GetUserByUsername(c)

\* the calls one at a time
SeqUserNext == Start \/ \E c \in Calls : (Quiet /\ UserBegin(c)) \/ UserStep(c)

SeqUserSpec == UserInit /\ [][SeqUserNext]_vars

----------------------------------------------------------------------------
(* JsonFilePollStorage.getPollsByCreator, getPollsVotedByUser and filter *)

\* the usernames the queries are asked about: the users, a name that is on
\* no poll, and a blank string
QueryNames == Voters \cup {" "}

AnyPoll(poll, username) == TRUE

\* poll => poll.createdBy === username
CreatedBy(poll, username) == poll.createdBy = username

\* poll => Object.prototype.hasOwnProperty.call(poll.votes, username)
VotedBy(poll, username) == username \in DOMAIN poll.votes

Matches(op, poll, username) ==
  IF op = "getPollsByCreator" THEN CreatedBy(poll, username)
  ELSE VotedBy(poll, username)

\* filter(filterFn): copies of the cached records filterFn accepts
Filtered(k, op, username) ==
  [records |-> {r \in Values(data[k]) : Matches(op, r, username)}]

CallGetPollsByCreator(c) ==
  \E username \in QueryNames :
     Issue(c, [Idle EXCEPT !.op = "getPollsByCreator", !.username = username],
           "polls", "filter")

CallGetPollsVotedByUser(c) ==
  \E username \in QueryNames :
     Issue(c, [Idle EXCEPT !.op = "getPollsVotedByUser", !.username = username],
           "polls", "filter")

\* r1 has thrown on a blank username before it calls filter; r2 filters
Filter(c) ==
  LET call == calls[c]
  IN  /\ call.pc = "filter"
      /\ calls' = [calls EXCEPT ![c] =
           IF revision = "r1" /\ Trim(call.username) = ""
           THEN Thrown(call, "InvalidUsername")
           ELSE Returned(call, Filtered(call.store, call.op, call.username))]
      /\ UNCHANGED <<revision, data, initialized, file, boot, listening>>

QueryBegin(c) ==
  \/ CallCreate(c)
  \/ CallUpdate(c)
  \/ CallDelete(c)
  \/ CallAddVote(c)
  \/ CallGetPollsByCreator(c)
  \/ CallGetPollsVotedByUser(c)

QueryStep(c) ==
  \/ WriteOpen(c)
  \/ WriteFile(c)
  \/ SaveFails(c)
  \/ Create(c)
  \/ Update(c)
  \/ Delete(c)
  \/ AddVote(c)
  \/ Filter(c)

QueryNext == Start \/ \E c \in Calls : QueryBegin(c) \/ QueryStep(c)

QuerySpec == Init /\ [][QueryNext]_vars

----------------------------------------------------------------------------
(* What callers do with the objects they pass and receive *)

\* record.votes.mallory = 0: a write into the votes object of a record
Scribbled(record) ==
  [record EXCEPT !.votes =
     [u \in DOMAIN @ \cup {"mallory"} |-> IF u = "mallory" THEN Num(0) ELSE @[u]]]

IsScribbled(record) == "mallory" \in DOMAIN record.votes

CallGetAll(c) ==
  Issue(c, [Idle EXCEPT !.op = "getAll"], "polls", "getAll")

\* Array.from(this.data.values()).map(entity => JSON.parse(JSON.stringify(entity)))
GetAllRecords(c) ==
  LET call == calls[c]
  IN  /\ call.pc = "getAll"
      /\ calls' = [calls EXCEPT ![c] = Returned(call, GetAll(call.store))]
      /\ UNCHANGED <<revision, data, initialized, file, boot, listening>>

\* filter(entity => { entity.votes.mallory = 0; return true; })
CallFilter(c) ==
  Issue(c, [Idle EXCEPT !.op = "filter"], "polls", "filterFn")

\* the loop of filter: filterFn is called with the cached object itself, and
\* a copy of the object is pushed after filterFn has returned
FilterFn(c) ==
  LET call == calls[c]
      k == call.store
      map == [i \in DOMAIN data[k] |-> Scribbled(data[k][i])]
  IN  /\ call.pc = "filterFn"
      /\ data' = [data EXCEPT ![k] = map]
      /\ calls' = [calls EXCEPT ![c] = Returned(call, [records |-> Values(map)])]
      /\ UNCHANGED <<revision, initialized, file, boot, listening>>

\* the caller writes into the payload it has passed to create or update;
\* the method copies the payload after its first await
MutatePayload(c) ==
  /\ calls[c].op \in {"create", "update"}
  /\ calls[c].pc # "idle"
  /\ ~IsScribbled(calls[c].payload)
  /\ calls' = [calls EXCEPT ![c].payload = Scribbled(@)]
  /\ UNCHANGED <<revision, data, initialized, file, boot, listening>>

ReturnsRecord(call) ==
  /\ call.pc = "done" /\ call.status = "ok"
  /\ \/ call.op \in {"create", "update"}
     \/ call.op = "getById" /\ call.value # Null

ReturnsRecords(call) ==
  /\ call.pc = "done" /\ call.status = "ok"
  /\ call.op \in {"getAll", "filter"}

\* no call has been issued after call c
Latest(c) == \A d \in Calls : d > c => calls[d].pc = "idle"

\* r1 returns JSON.parse(JSON.stringify(...)) everywhere; create and update
\* of r2 return { id, ...storedData }, a second spread of the storedData
\* whose first spread is in the cache, so the two objects have their nested
\* objects in common until another call replaces the cached record
SharesVotes(c) ==
  /\ revision = "r2"
  /\ calls[c].op \in {"create", "update"}
  /\ Latest(c)
  /\ Has(data[calls[c].store], calls[c].id)

\* the caller writes into a record it has received
MutateReturned(c) ==
  LET call == calls[c]
      k == call.store
  IN  \/ /\ ReturnsRecord(call)
         /\ ~IsScribbled(call.value)
         /\ calls' = [calls EXCEPT ![c].value = Scribbled(@)]
         /\ data' = IF SharesVotes(c)
                    THEN [data EXCEPT ![k][call.id] = Scribbled(@)]
                    ELSE data
         /\ UNCHANGED <<revision, initialized, file, boot, listening>>
      \/ /\ ReturnsRecords(call)
         /\ \E r \in call.value.records : ~IsScribbled(r)
         /\ calls' = [calls EXCEPT ![c].value =
                        [records |-> {Scribbled(r) : r \in @.records}]]
         /\ UNCHANGED <<revision, data, initialized, file, boot, listening>>

CopyBegin(c) ==
  \/ CallCreate(c)
  \/ CallUpdate(c)
  \/ CallGetById(c)
  \/ CallGetAll(c)
  \/ CallFilter(c)

CopyStep(c) ==
  \/ WriteOpen(c)
  \/ WriteFile(c)
  \/ SaveFails(c)
  \/ Create(c)
  \/ Update(c)
  \/ GetById(c)
  \/ GetAllRecords(c)
  \/ FilterFn(c)
  \/ MutatePayload(c)
  \/ MutateReturned(c)

\* the store calls one at a time, the caller's writes at any time
CopyNext == Start \/ \E c \in Calls : (Quiet /\ CopyBegin(c)) \/ CopyStep(c)

CopySpec == Init /\ [][CopyNext]_vars

----------------------------------------------------------------------------
(* Reads while mutations are in flight *)

ReadBegin(c) ==
  \/ CallCreate(c)
  \/ CallUpdate(c)
  \/ CallDelete(c)
  \/ CallAddVote(c)
  \/ CallGetById(c)
  \/ CallGetAll(c)
  \/ CallGetPollsByCreator(c)

ReadStep(c) ==
  \/ WriteOpen(c)
  \/ WriteFile(c)
  \/ SaveFails(c)
  \/ Create(c)
  \/ Update(c)
  \/ Delete(c)
  \/ AddVote(c)
  \/ GetById(c)
  \/ GetAllRecords(c)
  \/ Filter(c)

ReadNext == Start \/ \E c \in Calls : ReadBegin(c) \/ ReadStep(c)

ReadSpec == Init /\ [][ReadNext]_vars

----------------------------------------------------------------------------
(* filter with a predicate that throws *)

\* r1 catches what filterFn throws and throws 'Filter function failed during
\* execution: ' + error.message; r2 has no try around the loop, and the
\* predicate's own error rejects the promise of filter
FilterError == IF revision = "r1" THEN "FilterError" ELSE "PredicateError"

\* filter(poll => { if (poll.createdBy === username) throw new Error(...);
\*                  return true; })
CallFilterThrowing(c) ==
  \E username \in Usernames :
     Issue(c, [Idle EXCEPT !.op = "filterThrowing", !.username = username],
           "polls", "filterThrows")

\* the loop of filter: it ends at the first record the predicate throws on
FilterThrows(c) ==
  LET call == calls[c]
      records == Values(data[call.store])
  IN  /\ call.pc = "filterThrows"
      /\ calls' = [calls EXCEPT ![c] =
           IF \E r \in records : r.createdBy = call.username
           THEN Thrown(call, FilterError)
           ELSE Returned(call, [records |-> records])]
      /\ UNCHANGED <<revision, data, initialized, file, boot, listening>>

FilterBegin(c) ==
  \/ CallCreate(c)
  \/ CallUpdate(c)
  \/ CallFilterThrowing(c)

FilterStep(c) ==
  \/ WriteOpen(c)
  \/ WriteFile(c)
  \/ SaveFails(c)
  \/ Create(c)
  \/ Update(c)
  \/ FilterThrows(c)

FilterNext == Start \/ \E c \in Calls : FilterBegin(c) \/ FilterStep(c)

FilterSpec == Init /\ [][FilterNext]_vars

----------------------------------------------------------------------------
(* Vocabulary of the properties *)

Done(c) == calls[c].pc = "done"

Succeeded(c) == Done(c) /\ calls[c].status = "ok"

Polls == data["polls"]

\* the votes map of the stored poll, empty when the poll is not stored
StoredVotes(id) == IF id \in DOMAIN Polls THEN Polls[id].votes ELSE NoVotes

\* call c makes its step, from program point pc
Steps(c, pc) == calls[c].pc = pc /\ calls'[c] # calls[c]

\* only addVote calls have been issued
OnlyAddVote == \A c \in Calls : calls[c].op \in {"none", "addVote"}

\* only votes and reads have been issued
OnlyVotes == \A c \in Calls : calls[c].op \in {"none", "addVote", "vote", "getById"}

\* the same voter on the same poll
\* an integer in [0, N)
InRange(poll, x) == IsInteger(x) /\ x >= Num(0) /\ x < Num(Len(poll.options))

SameVoter(c, d) ==
  /\ calls[c].id = calls[d].id
  /\ calls[c].username = calls[d].username

----------------------------------------------------------------------------
(* C1: two addVote calls for distinct usernames on one poll that both       *)
(* return success leave both votes in the stored poll (no lost update).     *)

NoLostUpdate ==
  \A c, d \in Calls :
     ( /\ OnlyAddVote
       /\ calls[c].op = "addVote" /\ Succeeded(c)
       /\ calls[d].op = "addVote" /\ Succeeded(d)
       /\ calls[c].id = calls[d].id
       /\ calls[c].username # calls[d].username )
     => /\ calls[c].username \in DOMAIN StoredVotes(calls[c].id)
        /\ StoredVotes(calls[c].id)[calls[c].username] = calls[c].optionIndex

----------------------------------------------------------------------------
(* C2: once an addVote of a user has succeeded, every later addVote and     *)
(* every later PollService.vote of that user on that poll, with any integer *)
(* index, fails with the duplicate-vote error, and the votes map keeps the  *)
(* first recorded value.  Calls run one at a time.                          *)

\* a first addVote that succeeded and a later call of the same voter that has returned
VotedAgain(c, d) ==
  /\ c < d
  /\ OnlyVotes
  /\ calls[c].op = "addVote" /\ Succeeded(c)
  /\ calls[d].op \in {"addVote", "vote"} /\ Done(d)
  /\ IsInteger(calls[d].optionIndex)
  /\ SameVoter(c, d)

FirstVoteKept(c) ==
  /\ calls[c].username \in DOMAIN StoredVotes(calls[c].id)
  /\ StoredVotes(calls[c].id)[calls[c].username] = calls[c].optionIndex

\* a first addVote with an index in range succeeds, short of a failed write
FirstVoteSucceeds ==
  \A c \in Calls :
     ( /\ OnlyVotes
       /\ calls[c].op = "addVote" /\ Done(c)
       /\ calls[c].id \in DOMAIN Polls
       /\ InRange(Polls[calls[c].id], calls[c].optionIndex)
       /\ \A b \in Calls : b < c => ~SameVoter(b, c) )
     => calls[c].status \in {"ok", "PersistenceFailure"}

\* the claim as written
SecondVoteIsDuplicate ==
  /\ FirstVoteSucceeds
  /\ \A c, d \in Calls :
        VotedAgain(c, d) => calls[d].status = "DuplicateVote" /\ FirstVoteKept(c)

\* the error of a later PollService.vote: its own checks come before addVote
LaterVoteError(d) ==
  IF calls[d].op = "addVote" THEN "DuplicateVote"
  ELSE IF calls[d].username \notin DOMAIN data["users"] THEN "UserDoesNotExist"
  ELSE IF ~InRange(Polls[calls[d].id], calls[d].optionIndex)
       THEN "InvalidOptionIndex"
  ELSE "DuplicateVote"

\* C2 as amended: a later addVote fails with the duplicate-vote error; a
\* later PollService.vote fails with the error of the first check it does
\* not pass (user exists, index in range, not yet voted)
SecondVoteFails ==
  /\ FirstVoteSucceeds
  /\ \A c, d \in Calls :
        VotedAgain(c, d) => calls[d].status = LaterVoteError(d) /\ FirstVoteKept(c)

SecondVoteFailed ==
  \E c, d \in Calls :
     /\ VotedAgain(c, d)
     /\ calls[d].op = "addVote"
     /\ calls[d].status = "DuplicateVote"
     /\ calls[d].optionIndex # calls[c].optionIndex

----------------------------------------------------------------------------
(* C3: under any interleaving of addVote calls, a recorded vote never       *)
(* changes its value, and at most one addVote of a username on a poll       *)
(* returns success.                                                         *)

VoteKept ==
  \A id \in PollIds, u \in Usernames :
     u \in DOMAIN StoredVotes(id) =>
        /\ id \in DOMAIN data'["polls"]
        /\ u \in DOMAIN data'["polls"][id].votes
        /\ data'["polls"][id].votes[u] = StoredVotes(id)[u]

AtMostOneSuccess ==
  \A c, d \in Calls :
     ( /\ c # d
       /\ calls[c].op = "addVote" /\ Succeeded(c)
       /\ calls[d].op = "addVote" /\ Succeeded(d) )
     => ~SameVoter(c, d)

VoteNeverChanges == [][OnlyAddVote' => VoteKept /\ AtMostOneSuccess']_vars

----------------------------------------------------------------------------
(* C4: whenever no mutating call is in flight and every mutating call so    *)
(* far has succeeded, the file of a store holds the records of its cache.   *)

FileMatchesCache ==
  ( /\ listening
    /\ \A c \in Calls : calls[c].pc \in {"idle", "done"}
    /\ \A c \in Calls : calls[c].status # "PersistenceFailure" )
  => \A k \in Kinds : file[k] = Written({data[k][i] : i \in DOMAIN data[k]})

----------------------------------------------------------------------------
(* C5: when the file write of create, update or delete fails, the call      *)
(* fails and the cache is what it was before the call.  Calls run one at a  *)
(* time.                                                                    *)

FailedWriteRollsBack ==
  [][\A c \in Calls :
        (calls[c].pc \in {"open", "write"} /\ calls'[c].pc = "done"
           /\ calls'[c].status # "ok")
        => data'[calls[c].store] = calls[c].before]_vars

----------------------------------------------------------------------------
(* C6: a successful create(id, payload) returns {id, ...payload}, and a     *)
(* getById(id) that follows it returns the same record.  Calls run one at   *)
(* a time.                                                                  *)

\* { id, ...payload }
IdThenPayload(id, payload) ==
  [f \in {"id"} \cup DOMAIN payload |-> IF f \in DOMAIN payload THEN payload[f] ELSE id]

CreatedThenRead(c) ==
  /\ c + 1 \in Calls
  /\ calls[c].op = "create" /\ Succeeded(c)
  /\ calls[c + 1].op = "getById" /\ Done(c + 1)
  /\ calls[c + 1].id = calls[c].id

----------------------------------------------------------------------------
(* C7: create on an id that is present fails with the duplicate-key error   *)
(* and changes neither the cache nor the file.                              *)

DuplicateCreateFails ==
  [][\A c \in Calls :
        (Steps(c, "create") /\ calls[c].id \in DOMAIN data[calls[c].store])
        => /\ calls'[c].pc = "done"
           /\ calls'[c].status = "DuplicateKey"
           /\ UNCHANGED <<data, file>>]_vars

----------------------------------------------------------------------------
(* C8: on an id that is not in the store, getById returns null, update      *)
(* fails with the not-found error, delete returns false, and none of them   *)
(* changes the cache or the file.                                           *)

AbsentIdIsNotFound ==
  [][\A c \in Calls :
        ( /\ calls[c].pc \in {"getById", "update", "delete"}
          /\ calls'[c] # calls[c]
          /\ calls[c].id \notin DOMAIN data[calls[c].store] )
        => /\ calls'[c].pc = "done"
           /\ calls[c].pc = "getById" =>
                 calls'[c].status = "ok" /\ calls'[c].value = Null
           /\ calls[c].pc = "update" => calls'[c].status = "NotFound"
           /\ calls[c].pc = "delete" =>
                 calls'[c].status = "ok" /\ calls'[c].value = False
           /\ UNCHANGED <<data, file>>]_vars

\* an update of an id that a delete has removed
AbsentIdIsNotFoundSeen ==
  \E c, d \in Calls :
     /\ calls[c].op = "delete" /\ Succeeded(c) /\ calls[c].value = True
     /\ calls[d].op = "update" /\ Done(d) /\ calls[d].status = "NotFound"
     /\ calls[d].id = calls[c].id

----------------------------------------------------------------------------
(* C9: addVote with an integer outside [0, N) by a user who has not voted   *)
(* fails with the invalid-option-index error and changes no votes.          *)

OutOfRangeVote(c) ==
  /\ calls[c].op = "addVote"
  /\ calls[c].id \in DOMAIN Polls
  /\ calls[c].username \notin DOMAIN Polls[calls[c].id].votes
  /\ IsInteger(calls[c].optionIndex)
  /\ ~InRange(Polls[calls[c].id], calls[c].optionIndex)

OutOfRangeVoteFails ==
  [][\A c \in Calls :
        (Steps(c, "addVote") /\ OutOfRangeVote(c))
        => /\ calls'[c].pc = "done"
           /\ calls'[c].status = "InvalidOptionIndex"
           /\ UNCHANGED <<data, file>>]_vars

\* addVote with optionIndex = N has failed and the poll has no vote of the user
OutOfRangeVoteFailed ==
  \E c \in Calls :
     /\ calls[c].op = "addVote" /\ Done(c)
     /\ calls[c].status = "InvalidOptionIndex"
     /\ calls[c].optionIndex = Num(Len(Options))
     /\ calls[c].id \in DOMAIN Polls
     /\ calls[c].username \notin DOMAIN StoredVotes(calls[c].id)

----------------------------------------------------------------------------
(* C10: a successful addVote returns a poll with votes[username] =          *)
(* optionIndex, and a getById that follows it returns the same poll.  Calls *)
(* run one at a time.                                                       *)

VotedThenRead(c) ==
  /\ c + 1 \in Calls
  /\ calls[c].op \in {"addVote", "vote"} /\ Succeeded(c)
  /\ calls[c + 1].op = "getById" /\ Done(c + 1)
  /\ calls[c + 1].id = calls[c].id

AddVoteReturnsStoredPoll ==
  \A c \in Calls :
     /\ (calls[c].op \in {"addVote", "vote"} /\ Succeeded(c))
           => /\ calls[c].username \in DOMAIN calls[c].value.votes
              /\ calls[c].value.votes[calls[c].username] = calls[c].optionIndex
     /\ VotedThenRead(c) => calls[c + 1].value = calls[c].value

AddVoteReturnsStoredPollSeen ==
  \E c \in Calls : VotedThenRead(c) /\ calls[c].optionIndex = Num(1)

----------------------------------------------------------------------------
(* C11: for a stored poll whose votes all lie in [0, N), getPollResults     *)
(* returns one entry per option in option order, results[i].votes is the    *)
(* number of usernames whose vote is i, and totalVotes is the number of     *)
(* keys of votes.                                                           *)

VotesInRange(poll) ==
  \A u \in DOMAIN poll.votes :
     poll.votes[u] >= Num(0) /\ poll.votes[u] < Num(Len(poll.options))

ResultsOf(c) ==
  /\ calls[c].op = "getPollResults" /\ Succeeded(c)
  /\ calls[c].id \in DOMAIN Polls
  /\ VotesInRange(Polls[calls[c].id])

ResultsAreTallies ==
  \A c \in Calls :
     ResultsOf(c) =>
        LET poll == Polls[calls[c].id]
            r == calls[c].value
        IN  /\ r.id = calls[c].id
            /\ Len(r.results) = Len(poll.options)
            /\ \A i \in 1..Len(poll.options) :
                  /\ r.results[i].option = poll.options[i]
                  /\ r.results[i].votes =
                        Cardinality({u \in DOMAIN poll.votes : poll.votes[u] = Num(i - 1)})
            /\ r.totalVotes = Cardinality(DOMAIN poll.votes)

\* votes {alice: 0, bob: 1, carol: 0}: totalVotes 3, tallies 2 and 1
ResultsAreTalliesSeen ==
  \E c \in Calls :
     /\ ResultsOf(c)
     /\ Polls[calls[c].id].votes =
           [u \in Voters |-> IF u = "bob" THEN Num(1) ELSE Num(0)]
     /\ calls[c].value.totalVotes = 3
     /\ calls[c].value.results[1].votes = 2
     /\ calls[c].value.results[2].votes = 1

----------------------------------------------------------------------------
(* C12: after any sequence of successful create, update and delete calls,   *)
(* a new store instance initialized from the same file returns from         *)
(* getAll() the set of records the old instance returned.                   *)

Reloaded(k) == boot[k].pc = "done" /\ boot[k].old # Null

AllSucceeded == \A c \in Calls : calls[c].status \in {"none", "ok"}

RoundTrip ==
  \A k \in Kinds :
     (Reloaded(k) /\ AllSucceeded) => GetAll(k) = boot[k].old

----------------------------------------------------------------------------
(* C13: PollService.deletePoll removes the poll only when username is the   *)
(* poll's createdBy; with any other username it fails with the 'Only the    *)
(* creator' error and the poll, votes included, stays stored unchanged.     *)

\* the step removes poll id from the cache
Removes(id) == id \in DOMAIN Polls /\ id \notin DOMAIN data'["polls"]

OnlyCreatorDeletes ==
  [][/\ \A c \in Calls :
           ( /\ Steps(c, "authorize")
             /\ calls[c].id \in DOMAIN Polls
             /\ Polls[calls[c].id].createdBy # calls[c].username )
           => /\ calls'[c].pc = "done"
              /\ calls'[c].status = "OnlyCreator"
              /\ UNCHANGED <<data, file>>
     /\ \A id \in PollIds :
           Removes(id) =>
              \E c \in Calls :
                 /\ calls[c].op = "deletePoll" /\ calls'[c] # calls[c]
                 /\ calls[c].id = id
                 /\ calls[c].username = Polls[id].createdBy]_vars

\* a poll with a vote has been refused to another user and is still stored
OnlyCreatorDeletesSeen ==
  \E c \in Calls :
     /\ calls[c].op = "deletePoll" /\ Done(c)
     /\ calls[c].status = "OnlyCreator"
     /\ calls[c].id \in DOMAIN Polls
     /\ Polls[calls[c].id].createdBy # calls[c].username
     /\ DOMAIN Polls[calls[c].id].votes # {}

----------------------------------------------------------------------------
(* C14: deletePoll by the creator of a stored poll returns true, and every  *)
(* later getPoll, vote, getPollResults and deletePoll on that poll id fails *)
(* with the 'not found' error.  Calls run one at a time.                    *)

\* deletePoll returns true unless it is refused or its file write fails
DeleteReturnsTrue ==
  \A c \in Calls :
     (calls[c].op = "deletePoll" /\ Done(c)) =>
        \/ calls[c].status \in {"NotFound", "OnlyCreator", "PersistenceFailure"}
        \/ calls[c].status = "ok" /\ calls[c].value = True

\* a deletePoll that returned true and a later call on the same poll id
AfterDelete(c, d) ==
  /\ c < d
  /\ calls[c].op = "deletePoll" /\ Succeeded(c) /\ calls[c].value = True
  /\ calls[d].op \in {"getPoll", "vote", "getPollResults", "deletePoll"} /\ Done(d)
  /\ calls[d].id = calls[c].id

\* the claim as written
DeletedIsNotFound ==
  /\ DeleteReturnsTrue
  /\ \A c, d \in Calls : AfterDelete(c, d) => calls[d].status = "NotFound"

\* vote looks at its data and at the user before it looks for the poll; the
\* error call d is about to end with
ErrorAfterDelete(d) ==
  IF calls[d].op # "vote" THEN "NotFound"
  ELSE IF revision = "r1" /\ ~IsInteger(calls[d].optionIndex) THEN "InvalidVoteData"
  ELSE IF calls[d].username \notin DOMAIN data["users"] THEN "UserDoesNotExist"
  ELSE "NotFound"

\* C14 as amended: a later vote fails with 'not found' when its user exists
\* and its index is an integer, and with the error of the earlier check
\* otherwise
DeletedStaysGone ==
  [][/\ DeleteReturnsTrue'
     /\ \A c, d \in Calls :
           AfterDelete(c, d)' =>
              /\ calls[c].id \notin DOMAIN data'["polls"]
              /\ ~Done(d) => calls'[d].status = ErrorAfterDelete(d)]_vars

DeletedStaysGoneSeen ==
  \E c, d \in Calls :
     /\ AfterDelete(c, d)
     /\ calls[d].op = "vote"
     /\ calls[d].status = "NotFound"

----------------------------------------------------------------------------
(* C15: in every reachable state every value in the votes map of a stored   *)
(* poll is an integer i with 0 <= i < options.length of that poll.          *)

VotesAreIndices ==
  \A id \in DOMAIN Polls :
     \A u \in DOMAIN Polls[id].votes : InRange(Polls[id], Polls[id].votes[u])

----------------------------------------------------------------------------
(* C16: in every state reached through the service operations every key of  *)
(* the votes map of a stored poll is the username of a stored user; a       *)
(* PollService.vote by a username that does not exist fails with 'does not  *)
(* exist' and leaves the poll unchanged.                                    *)

Users == data["users"]

VotersExist ==
  listening =>
     \A id \in DOMAIN Polls : DOMAIN Polls[id].votes \subseteq DOMAIN Users

VotersAreUsers ==
  [][/\ VotersExist'
     /\ \A c \in Calls :
           (Steps(c, "voteUser") /\ calls[c].username \notin DOMAIN Users)
           => /\ calls'[c].pc = "done"
              /\ calls'[c].status = "UserDoesNotExist"
              /\ UNCHANGED <<data, file>>]_vars

\* a vote of an unknown user on a stored poll has failed, another vote is recorded
VotersAreUsersSeen ==
  \E c, d \in Calls :
     /\ calls[c].op = "vote" /\ Done(c)
     /\ calls[c].status = "UserDoesNotExist"
     /\ calls[c].id \in DOMAIN Polls
     /\ calls[c].username \notin DOMAIN Users
     /\ calls[d].op = "vote" /\ Succeeded(d)
     /\ calls[d].username \in DOMAIN StoredVotes(calls[d].id)

----------------------------------------------------------------------------
(* C17: in every state reached through the service operations the createdBy *)
(* of every stored poll is the username of a stored user; createPoll with a *)
(* creator that does not exist fails with 'does not exist' and stores no    *)
(* poll.                                                                    *)

CreatorsExist ==
  listening => \A id \in DOMAIN Polls : Polls[id].createdBy \in DOMAIN Users

CreatorsAreUsers ==
  [][/\ CreatorsExist'
     /\ \A c \in Calls :
           ( /\ Steps(c, "creatorExists")
             /\ Rejection(calls[c].payload) = "none"
             /\ calls[c].payload.creator \notin DOMAIN Users )
           => /\ calls'[c].pc = "done"
              /\ calls'[c].status = "CreatorDoesNotExist"
              /\ UNCHANGED <<data, file>>]_vars

\* one createPoll has failed for its creator, another has stored its poll
CreatorsAreUsersSeen ==
  \E c, d \in Calls :
     /\ calls[c].op = "createPoll" /\ Done(c)
     /\ calls[c].status = "CreatorDoesNotExist"
     /\ calls[d].op = "createPoll" /\ Succeeded(d)
     /\ calls[d].id \in DOMAIN Polls
     /\ Polls[calls[d].id].createdBy \in DOMAIN Users

----------------------------------------------------------------------------
(* C18: every poll stored through PollService.createPoll has at least 2     *)
(* options, each non-empty after trimming and pairwise distinct after       *)
(* trimming; createPoll with fewer than 2 options, an empty option or two   *)
(* options equal after trimming fails and stores no poll.                   *)

WellFormed(options) ==
  /\ Len(options) >= 2
  /\ \A i \in 1..Len(options) : Trim(options[i]) # ""
  /\ \A i, j \in 1..Len(options) : i # j => Trim(options[i]) # Trim(options[j])

OptionsAreDistinct ==
  [][\A c \in Calls :
        /\ ( /\ calls[c].op = "createPoll"
             /\ Steps(c, "create")
             /\ calls[c].id \in DOMAIN data'["polls"] )
           => WellFormed(data'["polls"][calls[c].id].options)
        /\ (Steps(c, "creatorExists") /\ ~WellFormed(calls[c].payload.options))
           => /\ calls'[c].pc = "done"
              /\ calls'[c].status # "ok"
              /\ UNCHANGED <<data, file>>]_vars

----------------------------------------------------------------------------
(* C19: the poll record createPoll stores and returns has an empty votes    *)
(* map, and its question, options and createdBy are those of the validated  *)
(* input, the creator of the input being its createdBy.                     *)

CreatedRecord(call) ==
  [id |-> call.id, question |-> call.poll.question, options |-> call.poll.options,
   createdBy |-> call.poll.createdBy, votes |-> NoVotes]

CreatedPollIsEmpty ==
  [][\A c \in Calls :
        calls[c].op = "createPoll"
        => /\ (Steps(c, "create") /\ calls'[c].pc = "open")
              => /\ calls[c].id \in DOMAIN data'["polls"]
                 /\ data'["polls"][calls[c].id] = CreatedRecord(calls[c])
                 /\ data'["polls"][calls[c].id].createdBy = Name(calls[c].username)
           /\ (~Succeeded(c) /\ Succeeded(c)')
              => calls'[c].value = CreatedRecord(calls[c])]_vars

CreatedPollIsEmptySeen ==
  \E c \in Calls :
     /\ calls[c].op = "createPoll" /\ Succeeded(c)
     /\ calls[c].id \in DOMAIN Polls
     /\ Polls[calls[c].id] = calls[c].value
     /\ calls[c].value.votes = NoVotes
     /\ calls[c].value.createdBy = Name(calls[c].username)

----------------------------------------------------------------------------
(* C20: createUser for a username not yet present stores and returns        *)
(* {id: username, username}, so that every user record has id = username;   *)
(* createUser for a username already present fails with an error that says  *)
(* 'already exists' and leaves the user record as it was.                   *)

CreatesUser(c) == calls[c].op \in {"createUser", "userStorage.createUser"}

\* the errors whose message contains 'already exists'
SaysAlreadyExists(status) == status \in {"AlreadyExists", "DuplicateKey"}

\* call c finds its username present, in the service or in the storage
FindsUserPresent(c) ==
  \/ Steps(c, "usernameExists") /\ Has(Users, Name(calls[c].username))
  \/ Steps(c, "create") /\ Has(Users, calls[c].id)

UserCreatedOnce ==
  [][/\ \A id \in DOMAIN data'["users"] : data'["users"][id] = User(id)
     /\ \A c \in Calls :
           CreatesUser(c)
           => /\ (Steps(c, "create") /\ ~Has(Users, calls[c].id))
                 => /\ Has(data'["users"], calls[c].id)
                    /\ data'["users"][calls[c].id] = User(Name(calls[c].username))
              /\ (~Succeeded(c) /\ Succeeded(c)')
                 => calls'[c].value = User(Name(calls[c].username))
              /\ FindsUserPresent(c)
                 => /\ calls'[c].pc = "done"
                    /\ SaysAlreadyExists(calls'[c].status)
                    /\ UNCHANGED <<data, file>>]_vars

----------------------------------------------------------------------------
(* C21: at every point of a sequence of operations userExists(u) returns    *)
(* true if and only if a createUser(u) has succeeded before; no operation   *)
(* removes a user, so once it returns true for u it does so ever after.     *)

CreatedUser(u) ==
  \E d \in Calls : CreatesUser(d) /\ Succeeded(d) /\ Name(calls[d].username) = u

ExistsIffCreated ==
  [][/\ \A u \in DOMAIN data["users"] : u \in DOMAIN data'["users"]
     /\ \A c \in Calls :
           Steps(c, "getUserByUsername")
           => /\ calls'[c].status = "ok"
              /\ calls'[c].value = True <=> CreatedUser(calls[c].username)
              /\ calls'[c].value = True <=> Has(data["users"], calls[c].username)]_vars

----------------------------------------------------------------------------
(* C22: getPollsByCreator(username) returns exactly the stored polls whose  *)
(* createdBy is username: every poll it returns has that createdBy, every   *)
(* stored poll with that createdBy is returned, and the result is empty     *)
(* when there is none.                                                      *)

\* call c returns from the query op, asked about a username that is not blank
Answers(c, op) ==
  /\ calls[c].op = op
  /\ Steps(c, "filter")
  /\ Trim(calls[c].username) # ""

ByCreatorIsExact ==
  [][\A c \in Calls :
        Answers(c, "getPollsByCreator")
        => /\ calls'[c].status = "ok"
           /\ \A r \in calls'[c].value.records : r.createdBy = calls[c].username
           /\ \A id \in DOMAIN Polls :
                 Polls[id].createdBy = calls[c].username
                 => Polls[id] \in calls'[c].value.records
           /\ calls'[c].value.records \subseteq Values(Polls)
           /\ UNCHANGED <<data, file>>]_vars

\* a call has returned the polls of alice, another has found none for carol
ByCreatorIsExactSeen ==
  \E c, d \in Calls :
     /\ calls[c].op = "getPollsByCreator" /\ Succeeded(c)
     /\ calls[c].username = "alice" /\ calls[c].value.records # {}
     /\ calls[d].op = "getPollsByCreator" /\ Succeeded(d)
     /\ calls[d].username = "carol" /\ calls[d].value.records = {}

----------------------------------------------------------------------------
(* C23: getPollsVotedByUser(username) returns exactly the stored polls      *)
(* whose votes map has username as a key: a poll is returned if and only if *)
(* a vote by username on it has been recorded and the poll has not been     *)
(* deleted.                                                                 *)

\* what getPollsVotedByUser(username) returns in this state
PollsVotedBy(username) == Filtered("polls", "getPollsVotedByUser", username).records

\* an addVote by username on the poll has returned success
VoteRecorded(id, username) ==
  \E d \in Calls :
     /\ calls[d].op = "addVote" /\ Succeeded(d)
     /\ calls[d].id = id /\ calls[d].username = username

\* an addVote by username on the poll has been issued
VoteAsked(id, username) ==
  \E d \in Calls :
     calls[d].op = "addVote" /\ calls[d].id = id /\ calls[d].username = username

\* the poll is stored and votes are all that was asked of the store
OnlyVotedOn(id) ==
  /\ id \in DOMAIN Polls
  /\ Polls[id].id = id
  /\ OnlyAddVote

VotedByIsExact ==
  \A id \in PollIds, username \in Usernames :
     OnlyVotedOn(id)
     => /\ VoteRecorded(id, username) => Polls[id] \in PollsVotedBy(username)
        /\ Polls[id] \in PollsVotedBy(username) => VoteAsked(id, username)

----------------------------------------------------------------------------
(* C24: after update(id, payload) on a present id, also with a payload that *)
(* carries an id field of its own, the record stored under id has that id;  *)
(* in every reachable state the id field of each cached record equals the   *)
(* key the record is stored under.                                          *)

IdIsKey ==
  \A k \in Kinds : \A id \in DOMAIN data[k] : data[k][id].id = id

----------------------------------------------------------------------------
(* C25: in every reachable state no two records that getAll() returns have  *)
(* the same id field, and the file never holds two array elements with the  *)
(* same id.                                                                 *)

OneRecordPerId(records) ==
  \A r, q \in records : r.id = q.id => r = q

IdsAreUnique ==
  \A k \in Kinds :
     /\ \A i, j \in DOMAIN data[k] : data[k][i].id = data[k][j].id => i = j
     /\ OneRecordPerId(GetAll(k).records)
     /\ OneRecordPerId(file[k].entities)

----------------------------------------------------------------------------
(* C26: no reference into the cached records is handed to a caller: a write *)
(* into a record returned by create, getById, update, getAll or filter,     *)
(* into a payload after it was passed to create or update, or into the      *)
(* record a filter predicate receives, never changes what later getById and *)
(* getAll calls return.                                                     *)

\* the callers' writes are the only source of the key "mallory"
CacheIsOwned ==
  \A id \in DOMAIN Polls : ~IsScribbled(Polls[id])

----------------------------------------------------------------------------
(* C27: getPollResults(pollId) never changes the cache or the file, and two *)
(* getPollResults calls on the same poll with no mutation between them      *)
(* return equal results, however the reads interleave.                      *)

GotResults(c) == calls[c].op = "getPollResults" /\ Succeeded(c)

----------------------------------------------------------------------------
(* C28: for a stored poll whose votes map has entries outside [0, N),       *)
(* getPollResults does not fail, skips those entries, and returns           *)
(* totalVotes equal to the sum of results[i].votes over the options, which  *)
(* may be less than the number of keys of votes.                            *)

RECURSIVE SumOfVotes(_, _)
SumOfVotes(results, n) ==
  IF n = 0 THEN 0 ELSE results[n].votes + SumOfVotes(results, n - 1)

\* some entry is below 0 or at or above options.length
HasOutside(poll) ==
  \E u \in DOMAIN poll.votes :
     poll.votes[u] < Num(0) \/ poll.votes[u] >= Num(Len(poll.options))

TotalIsSumOfTallies ==
  [][\A c \in Calls :
        ( /\ Steps(c, "getPollResults")
          /\ calls[c].id \in DOMAIN Polls
          /\ HasOutside(Polls[calls[c].id]) )
        => LET poll == Polls[calls[c].id]
               r == calls'[c].value
           IN  /\ calls'[c].status = "ok"
               /\ \A i \in 1..Len(poll.options) :
                     r.results[i].votes =
                        Cardinality({u \in DOMAIN poll.votes : poll.votes[u] = Num(i - 1)})
               /\ r.totalVotes = SumOfVotes(r.results, Len(r.results))]_vars

----------------------------------------------------------------------------
(* C29: every change to the votes map of a stored poll, in any interleaving *)
(* of operations, adds exactly one new username key and leaves the entries  *)
(* recorded before in place: a vote whose addVote returned success stays in *)
(* the poll until the whole poll is deleted.                                *)

\* votes map `after` is `before` with one more key
OneVoteAdded(before, after) ==
  \E u \in DOMAIN after \ DOMAIN before :
     /\ DOMAIN after = DOMAIN before \cup {u}
     /\ \A v \in DOMAIN before : after[v] = before[v]

VotesOnlyGrow ==
  [][OnlyAddVote' =>
       \A id \in DOMAIN Polls \cap DOMAIN data'["polls"] :
          data'["polls"][id].votes # Polls[id].votes
          => OneVoteAdded(Polls[id].votes, data'["polls"][id].votes)]_vars

----------------------------------------------------------------------------
(* C30: the rewrites of the file of one store are serialized: at most one   *)
(* file write is in flight per store at any time, so that once all          *)
(* concurrent mutating calls have returned the file holds the snapshot of   *)
(* the latest cache and never an older one whose write completed last.      *)

\* fs.writeFile of call c on the file of store k has not settled
Writing(c, k) == calls[c].store = k /\ calls[c].pc \in {"open", "write"}

WritesAreSerialized ==
  \A k \in Kinds :
     /\ \A c, d \in Calls : (Writing(c, k) /\ Writing(d, k)) => c = d
     /\ (listening /\ Quiet /\ \A c \in Calls : calls[c].status \in {"none", "ok"})
        => file[k] = Written(Values(data[k]))

----------------------------------------------------------------------------
(* C31: the create, update and delete calls that target one record id are   *)
(* totally ordered: the read-check-write sequence of an addVote on a poll   *)
(* (getById, the duplicate and range checks, update) never interleaves with *)
(* another mutation of that poll.                                           *)

\* addVote call c has read its poll and has not written it back
BetweenReadAndWrite(c) == calls[c].op = "addVote" /\ calls[c].pc = "update"

\* call d changes the cached record of the poll in this step
MutatesPoll(d, id) ==
  /\ calls[d].id = id
  /\ Steps(d, "create") \/ Steps(d, "update") \/ Steps(d, "delete")
  /\ Get(data'["polls"], id) # Get(Polls, id)

AddVoteIsExclusive ==
  [][\A c, d \in Calls :
        (c # d /\ BetweenReadAndWrite(c)) => ~MutatesPoll(d, calls[c].id)]_vars

----------------------------------------------------------------------------
(* C32: every record that getById, getAll or filter returns while mutations *)
(* are in flight is a complete record value written by some create or       *)
(* update call, the state of the record before or after a mutation, never a *)
(* partially written record.                                                *)

\* the records the files of earlier runs hold
InitialRecords == UNION {f.polls.entities : f \in InitialFiles}

\* the records the create and update calls issued so far write
WrittenRecords ==
  { IdThenPayload(calls[d].id, calls[d].payload) :
      d \in {e \in Calls : calls[e].op \in {"create", "update"}} }

\* the records the update of an addVote issued so far writes
RECURSIVE WithVotes(_, _)
WithVotes(records, n) ==
  IF n = 0 THEN records
  ELSE WithVotes(records \cup
                 { [r EXCEPT !.votes =
                      [u \in DOMAIN @ \cup {calls[d].username} |->
                         IF u = calls[d].username THEN calls[d].optionIndex ELSE @[u]]] :
                   r \in records, d \in {e \in Calls : calls[e].op = "addVote"} },
                 n - 1)

CompleteRecords == WithVotes(InitialRecords \cup WrittenRecords, MaxCalls)

ReadsAreWhole ==
  [][\A c \in Calls :
        /\ (Steps(c, "getById") /\ calls'[c].value # Null)
           => calls'[c].value \in CompleteRecords'
        /\ ((Steps(c, "getAll") \/ Steps(c, "filter")) /\ calls'[c].status = "ok")
           => calls'[c].value.records \subseteq CompleteRecords']_vars

\* getAll has returned what an update wrote whose file write is not finished
ReadsAreWholeSeen ==
  \E c, d \in Calls :
     /\ calls[c].op = "getAll" /\ Succeeded(c)
     /\ calls[d].op = "update" /\ calls[d].pc = "write"
     /\ calls[d].payload.createdBy = "bob"
     /\ IdThenPayload(calls[d].id, calls[d].payload) \in calls[c].value.records

----------------------------------------------------------------------------
(* C33: on first use with the file absent or holding content that does not  *)
(* parse, initialization ends with an empty cache and a file that holds the *)
(* empty collection; the store is then in one and the same state in the two *)
(* cases, so that every later operation has the same outcome, and no error  *)
(* reaches the caller.                                                      *)

\* initialize() of store k has read a file that is absent or does not parse
Unreadable(k) == boot[k].pc = "load" /\ boot[k].content.state # "ok"

\* initialize() of store k returns after it has saved
Heals(k) == boot[k].pc = "write" /\ boot'[k].pc = "done"

MissingOrCorruptHeals ==
  [][\A k \in Kinds :
        /\ (Unreadable(k) /\ boot'[k] # boot[k])
           => /\ data'[k] = EmptyMap
              /\ boot'[k].pc = "open"
              /\ boot'[k].entities = {}
        /\ Heals(k)
           => /\ data'[k] = EmptyMap
              /\ file'[k] = Written({})
              /\ initialized'[k]
              /\ boot'[k] = [Booting EXCEPT !.pc = "done"]]_vars

\* both stores have healed and the server listens
MissingOrCorruptHealsSeen ==
  /\ listening
  /\ \A c \in Calls : calls[c].pc = "idle"
  /\ \A k \in Kinds : file[k] = Written({}) /\ data[k] = EmptyMap /\ initialized[k]

----------------------------------------------------------------------------
(* C34: when the predicate passed to filter throws on some record, filter   *)
(* fails with an error that wraps the predicate's original message, returns *)
(* no partial result, and leaves the cache and the file unchanged.          *)

\* the predicate of call c throws on a cached record
PredicateThrows(c) ==
  /\ Steps(c, "filterThrows")
  /\ \E id \in DOMAIN Polls : Polls[id].createdBy = calls[c].username

FilterWrapsError ==
  [][\A c \in Calls :
        PredicateThrows(c)
        => /\ calls'[c].pc = "done"
           /\ calls'[c].status = "FilterError"
           /\ calls'[c].value = Null
           /\ UNCHANGED <<data, file>>]_vars

----------------------------------------------------------------------------
(* C35: when two createUser calls for one username run concurrently, both   *)
(* possibly passing the usernameExists check of the service before either   *)
(* creates, exactly one returns the user record and the other fails with an *)
(* error that says 'already exists'; the directory ends with exactly one    *)
(* record for that username.                                                *)

\* two createUser calls of the service for one username have ended, no file
\* write has failed, and call c has returned
BothCreated(c, d) ==
  /\ c # d
  /\ calls[c].op = "createUser" /\ calls[d].op = "createUser"
  /\ Name(calls[c].username) = Name(calls[d].username)
  /\ Succeeded(c) /\ Done(d)
  /\ calls[d].status # "PersistenceFailure"

OneCreateUserWins ==
  \A c, d \in Calls :
     BothCreated(c, d)
     => /\ calls[c].value = User(Name(calls[c].username))
        /\ SaysAlreadyExists(calls[d].status)
        /\ Has(Users, Name(calls[c].username))
        /\ Users[Name(calls[c].username)] = calls[c].value

----------------------------------------------------------------------------
(* C36: a deleted poll is never brought back: when delete(pollId) completes *)
(* while an addVote on that poll is between its getById and its update, the *)
(* addVote fails with the not-found error and the poll stays absent from    *)
(* the cache and from every later rewrite of the file.                      *)

\* addVote call c has read the poll, and the poll has been deleted since
ReadThenDeleted(c) ==
  /\ BetweenReadAndWrite(c)
  /\ calls[c].id \notin DOMAIN Polls

\* call d takes the snapshot of the cache that its fs.writeFile writes
TakesSnapshot(d) == calls[d].pc # "open" /\ calls'[d].pc = "open"

DeletedPollStaysDeleted ==
  [][/\ \A c \in Calls :
           (ReadThenDeleted(c) /\ Steps(c, "update"))
           => /\ calls'[c].pc = "done"
              /\ calls'[c].status = "NotFound"
              /\ UNCHANGED <<data, file>>
     /\ \A d \in Calls :
           TakesSnapshot(d)
           => calls'[d].entities = Values(data'[calls'[d].store])]_vars

\* delete has returned true while an addVote that has read the poll is about
\* to call update
DeletedPollStaysDeletedSeen ==
  \E c, d \in Calls :
     /\ ReadThenDeleted(c)
     /\ calls[d].op = "delete" /\ Succeeded(d) /\ calls[d].value = True
     /\ calls[d].id = calls[c].id

----------------------------------------------------------------------------
(* C37: a successful addVote(pollId, username, optionIndex) leaves every    *)
(* other poll record, the user directory, and the id, question, options and *)
(* createdBy of its poll unchanged; the votes map of its poll is the only   *)
(* difference between the poll store before and after.  Calls run one at a  *)
(* time.                                                                    *)

\* record `after` is record `before` but for its votes
SameButVotes(before, after) ==
  /\ DOMAIN after = DOMAIN before
  /\ \A f \in DOMAIN before \ {"votes"} : after[f] = before[f]

\* addVote call c makes a step on its way to success
AddVoteActs(c) ==
  /\ calls[c].op = "addVote"
  /\ calls'[c] # calls[c]
  /\ calls'[c].pc # "idle"
  /\ calls'[c].status \in {"none", "ok"}

----------------------------------------------------------------------------
(* C38: the server handles no request before both the user store and the    *)
(* poll store have finished their initialization: start() begins to listen  *)
(* only after both initialize() calls have resolved, and when either fails  *)
(* the server never listens and start() rejects.                            *)

\* initialize() of some store has thrown, which rejects the Promise.all that
\* start() awaits
StartRejects == \E k \in Kinds : boot[k].pc = "failed"

ListensAfterInitialization ==
  [][/\ listening' => \A k \in Kinds : initialized'[k] /\ boot'[k].pc = "done"
     /\ \A c \in Calls : calls'[c].pc # "idle" => listening'
     /\ StartRejects => (StartRejects' /\ ~listening /\ ~listening')]_vars

\* one store has failed after the other was initialized, and nothing listens
ListensAfterInitializationSeen ==
  /\ boot["users"].pc = "failed"
  /\ boot["polls"].pc = "done" /\ initialized["polls"]
  /\ ~listening
  /\ \A c \in Calls : calls[c].pc = "idle"

====
